---- MODULE Spec2Model ----
(***************************************************************************)
(* Model of modules/camera/Camera.cpp (default camera HAL): the device     *)
(* lifecycle (open/close) and the stream configuration transaction         *)
(* (configureStreams, reuseStream, isValidStreamSet, setupStreams,         *)
(* destroyStreams).                                                        *)
(*                                                                         *)
(* Stream objects live at heap addresses.  The descriptors                 *)
(* (camera3_stream_t) belong to the framework: a call takes them as input  *)
(* (stream_type, max_buffers, priv) and the handles it has written into    *)
(* them are its output.  Stream.h / Stream.cpp are not part of the source  *)
(* at hand; the Stream members used by Camera.cpp are modelled from the    *)
(* specification text.                                                     *)
(*                                                                         *)
(* Undefined behaviour (reading a slot of the uninitialised newStreams     *)
(* array, using a Stream after delete, deleting it twice) is a             *)
(* nondeterministic choice among its outcomes.  An outcome that damages    *)
(* the heap, or that kills the process, ends the defined behaviour of the  *)
(* program: it is recorded in ub and no further action is taken.           *)
(* Statements about the status of a call are statements about calls that   *)
(* return.                                                                 *)
(***************************************************************************)
EXTENDS Integers, Sequences, FiniteSets, TLC

\* ----------------------------------------------------------------- bounds
NumCameras == 2
NumAddr    == 3
MaxLen     == 2
NumThreads == 3
\* the number of calls a thread makes in the specification with threads
MaxCalls   == 1

Cameras == 0 .. (NumCameras - 1)
Addr    == 1 .. NumAddr
Threads == 1 .. NumThreads

NULL == 0
\* the value read from a slot of newStreams that was never assigned
UNINIT == -1

StreamTypes == {"OUTPUT", "INPUT", "BIDIRECTIONAL"}

WriteFlags == {"SW_WRITE_OFTEN", "HW_CAMERA_WRITE"}
ReadFlags  == {"SW_READ_OFTEN", "HW_CAMERA_READ"}

\* a descriptor without a stream (max_buffers is 0), and a descriptor that
\* a successful configuration has returned (max_buffers > 0, priv set)
FreshDesc(ty)    == [stream_type |-> ty, max_buffers |-> 0, priv |-> NULL]
ReuseDesc(ty, a) == [stream_type |-> ty, max_buffers |-> 1, priv |-> a]

\* the descriptors a caller can pass when it holds the handles H; it may have
\* changed the type of a descriptor since it got the handle
Descriptors(H) ==
  {FreshDesc(ty) : ty \in StreamTypes}
    \cup {ReuseDesc(ty, a) : ty \in StreamTypes, a \in H}

RECURSIVE SeqsUpTo(_, _)
SeqsUpTo(D, n) ==
  IF n = 0 THEN {<< >>}
  ELSE LET shorter == SeqsUpTo(D, n - 1)
       IN  shorter \cup {Append(s, d) : s \in {x \in shorter : Len(x) = n - 1},
                                         d \in D}

\* the descriptors the threads pass: they leave a new descriptor's type as
\* it is and may turn a returned descriptor into an input
ThreadDescriptors(H) ==
  {FreshDesc("OUTPUT")}
    \cup {ReuseDesc(ty, a) : ty \in {"OUTPUT", "INPUT"}, a \in H}

\* stream_config == NULL
NullConfig == [isNull |-> TRUE, streams |-> << >>]

\* the configurations a caller can pass: NULL, or an array of 0..MaxLen
\* descriptors
Configs(H) ==
  {NullConfig}
    \cup {[isNull |-> FALSE, streams |-> s] : s \in SeqsUpTo(Descriptors(H), MaxLen)}

ThreadConfigs(H) ==
  {NullConfig}
    \cup {[isNull |-> FALSE, streams |-> s] :
            s \in SeqsUpTo(ThreadDescriptors(H), MaxLen)}

Range(s) == {s[i] : i \in 1 .. Len(s)}

\* ------------------------------------------------------------------ state
VARIABLES
  mBusy,     \* [Cameras -> BOOLEAN]               Camera::mBusy
  mStreams,  \* [Cameras -> Seq(Addr)]             Camera::mStreams/mNumStreams
  heap,      \* [Addr -> Stream object or NoStream]
  issued,    \* the handles that successful calls have returned
  ub,        \* "none", "corrupt" or "crashed"
  last,      \* what the last completed call did (history variable)
  sessions,  \* [Cameras -> successful opens minus successful closes] (history)
  mMutex,    \* [Cameras -> the thread that holds Camera::mMutex, or NoThread]
  pc,        \* [Threads -> where the thread is in its call]
  frame,     \* [Threads -> the arguments, locals and status of its call]
  calls      \* [Threads -> the number of calls it has made]

threadVars == <<mMutex, pc, frame, calls>>
vars == <<mBusy, mStreams, heap, issued, ub, last, sessions, mMutex, pc, frame, calls>>

\* memory that holds no Stream
NoStream ==
  [alive |-> FALSE, mId |-> -1, mType |-> "none", mReuse |-> FALSE,
   mUsage |-> {}, mMaxBuffers |-> 0]

\* ------------------------------------------------- Stream (collaborator)
\* Stream::Stream(id, s): a stream bound to device id and descriptor s
Stream(id, astream) ==
  [alive |-> TRUE, mId |-> id, mType |-> astream.stream_type,
   mReuse |-> FALSE, mUsage |-> {}, mMaxBuffers |-> 0]

isInputType(s)  == s.mType \in {"INPUT", "BIDIRECTIONAL"}
isOutputType(s) == s.mType \in {"OUTPUT", "BIDIRECTIONAL"}

\* a compatibility check that does not compare the owning device
isValidReuseStream_AnyDevice(s, id, astream) ==
  s.mType = astream.stream_type

\* Stream::isValidReuseStream(id, s): same owning device, same type
isValidReuseStream(s, id, astream) ==
  /\ s.mId = id
  /\ s.mType = astream.stream_type

\* ------------------------------------------- the configuration transaction
\* The state of one running configureStreams call: the heap as the call has
\* changed it so far, the device's committed array (old), the local
\* newStreams array, and a record of what the call did.
TxBegin(h, old, n) ==
  [heap |-> h, old |-> old,
   newStreams |-> [i \in 1 .. n |-> UNINIT],
   failed |-> FALSE, ub |-> "none",
   created |-> {}, reused |-> {}, destroyed |-> {}, twice |-> {},
   setup |-> {}]

\* a transaction that starts without clearing the reuse flags
ResetReuse_None(t) == t

\* lines 135-137: mark all current streams unused
ResetReuse(t) ==
  [t EXCEPT !.heap = [a \in Addr |->
      IF a \in Range(t.old) /\ t.heap[a].alive
      THEN [t.heap[a] EXCEPT !.mReuse = FALSE] ELSE t.heap[a]]]

\* Camera::reuseStream: the set of outcomes <<transaction, returned pointer>>
reuseStream(t, id, astream) ==
  LET priv == astream.priv IN
  IF priv = NULL
  THEN {<<[t EXCEPT !.ub = "crashed"], NULL>>}
  ELSE IF t.heap[priv].alive
  THEN IF ~isValidReuseStream(t.heap[priv], id, astream)
       THEN {<<t, NULL>>}
       ELSE {<<[t EXCEPT !.heap[priv].mReuse = TRUE,
                         !.reused = @ \cup {priv}], priv>>}
  ELSE \* priv was deleted: the check reads, and the mark writes, freed memory
       {<<t, NULL>>,
        <<[t EXCEPT !.ub = "corrupt", !.reused = @ \cup {priv}], priv>>}

\* the allocator hands out the lowest address that holds no live object, so
\* the memory of a deleted Stream is used again by the next new Stream
FreeAddr(h) == {x \in Addr : ~h[x].alive}
Lowest(S)   == CHOOSE x \in S : \A y \in S : x <= y

\* new Stream(mId, astream)
NewStream(t, id, astream) ==
  {<<[t EXCEPT !.heap[a] = Stream(id, astream),
               !.created = @ \cup {a}], a>> :
     a \in IF FreeAddr(t.heap) = {} THEN {} ELSE {Lowest(FreeAddr(t.heap))}}

\* lines 140-150: one iteration of the fill loop, for position i
FillOne(t, id, astream, i) ==
  LET outs == IF astream.max_buffers > 0
              THEN reuseStream(t, id, astream)
              ELSE NewStream(t, id, astream)
  IN  {IF o[1].ub = "crashed" THEN o[1]
       ELSE IF o[2] = NULL
       THEN [o[1] EXCEPT !.newStreams[i] = NULL, !.failed = TRUE]
       ELSE [o[1] EXCEPT !.newStreams[i] = o[2]] :
       o \in outs}

\* lines 139-151: the fill loop from position i on
RECURSIVE FillFrom(_, _, _, _)
FillFrom(t, id, streams, i) ==
  IF i > Len(streams) \/ t.failed \/ t.ub = "crashed"
  THEN {t}
  ELSE UNION {FillFrom(u, id, streams, i + 1) : u \in FillOne(t, id, streams[i], i)}

\* delete streams[i]
DeleteStream(t, a) ==
  [t EXCEPT !.heap[a] = NoStream, !.destroyed = @ \cup {a}]

\* a destroyStreams that deletes the streams marked reused too
DestroyOne_IgnoreReuse(t, p) ==
  IF p \in Addr /\ t.heap[p].alive THEN {DeleteStream(t, p)} ELSE {t}

\* lines 183-184: one iteration of destroyStreams, for the pointer p
DestroyOne(t, p) ==
  IF t.ub = "crashed" \/ p = NULL THEN {t}
  ELSE IF p = UNINIT
  THEN \* an indeterminate pointer: null or a stream marked reused (nothing
       \* happens), a live stream that is not marked (deleted), a stream
       \* this call has deleted (deleted again), or no object at all
       {t}
       \cup {[DeleteStream(t, a) EXCEPT !.ub = "corrupt"] :
               a \in {x \in Addr : t.heap[x].alive /\ ~t.heap[x].mReuse}}
       \cup {[t EXCEPT !.ub = "corrupt", !.twice = @ \cup {a}] : a \in t.destroyed}
       \cup {[t EXCEPT !.ub = "crashed"]}
  ELSE IF t.heap[p].alive
  THEN IF t.heap[p].mReuse THEN {t} ELSE {DeleteStream(t, p)}
  ELSE \* p was deleted: mReuse is read from freed memory
       {t,
        [t EXCEPT !.ub = "corrupt", !.twice = @ \cup {p}],
        [t EXCEPT !.ub = "crashed"]}

\* Camera::destroyStreams(streams, count), from position i on
RECURSIVE destroyStreams(_, _, _)
destroyStreams(t, streams, i) ==
  IF i > Len(streams) THEN {t}
  ELSE UNION {destroyStreams(u, streams, i + 1) : u \in DestroyOne(t, streams[i])}

\* isValidStreamSet without the limit on input streams
isValidStreamSet_NoInputLimit(objs) ==
  LET count   == Len(objs)
      outputs == Cardinality({i \in 1 .. count : isOutputType(objs[i])})
  IN  IF count = 0 THEN FALSE
      ELSE IF outputs < 1 THEN FALSE
      ELSE TRUE

\* Camera::isValidStreamSet(streams, count), on the Stream objects
isValidStreamSet(objs) ==
  LET count   == Len(objs)
      inputs  == Cardinality({i \in 1 .. count : isInputType(objs[i])})
      outputs == Cardinality({i \in 1 .. count : isOutputType(objs[i])})
  IN  IF count = 0 THEN FALSE
      ELSE IF outputs < 1 THEN FALSE
      ELSE IF inputs > 1 THEN FALSE
      ELSE TRUE

\* line 154: the validator's verdicts on newStreams; a deleted stream's type
\* is read from freed memory
ValidVerdicts(t) ==
  IF \A i \in 1 .. Len(t.newStreams) : t.heap[t.newStreams[i]].alive
  THEN {isValidStreamSet([i \in 1 .. Len(t.newStreams) |-> t.heap[t.newStreams[i]]])}
  ELSE BOOLEAN

\* a setup that assigns the usage but no buffer count
SetupOne_NoMaxBuffers(t, p) ==
  IF ~t.heap[p].alive THEN t
  ELSE LET s     == t.heap[p]
           usage == (IF isOutputType(s) THEN WriteFlags ELSE {})
                      \cup (IF isInputType(s) THEN ReadFlags ELSE {})
       IN  [t EXCEPT !.heap[p].mUsage = usage]

\* lines 248-258: one iteration of setupStreams
SetupOne(t, p) ==
  IF ~t.heap[p].alive THEN t
  ELSE LET s     == t.heap[p]
           usage == (IF isOutputType(s) THEN WriteFlags ELSE {})
                      \cup (IF isInputType(s) THEN ReadFlags ELSE {})
       IN  [t EXCEPT !.heap[p].mUsage = usage,
                     !.heap[p].mMaxBuffers = 1,
                     !.setup = @ \cup {p}]

\* Camera::setupStreams(streams, count), from position i on
RECURSIVE setupStreams(_, _, _)
setupStreams(t, streams, i) ==
  IF i > Len(streams) THEN t
  ELSE setupStreams(SetupOne(t, streams[i]), streams, i + 1)

\* what a call leaves behind
TxEnd(t, ret, committed, filled) ==
  [heap |-> t.heap, ub |-> t.ub,
   streams |-> IF committed THEN t.newStreams ELSE t.old,
   ret |-> ret, cand |-> t.newStreams, filled |-> filled,
   created |-> t.created, reused |-> t.reused,
   destroyed |-> t.destroyed, twice |-> t.twice,
   old |-> t.old, setup |-> t.setup]

\* lines 170-174: err_out
ErrOut(t, filled) ==
  {TxEnd(u, "-EINVAL", FALSE, filled) : u \in destroyStreams(t, t.newStreams, 1)}

\* a commit that forgets to swap the arrays
Commit_NoSwap(t) ==
  {TxEnd(u, "0", FALSE, TRUE) :
     u \in destroyStreams(setupStreams(t, t.newStreams, 1), t.old, 1)}

\* lines 159-168: set up, destroy the old streams, swap the arrays
Commit(t) ==
  {TxEnd(u, "0", TRUE, TRUE) :
     u \in destroyStreams(setupStreams(t, t.newStreams, 1), t.old, 1)}

\* lines 153-174: after the fill loop
AfterFill(t) ==
  IF t.ub = "crashed" THEN {TxEnd(t, "none", FALSE, FALSE)}
  ELSE IF t.failed THEN ErrOut(t, FALSE)
  ELSE UNION {IF v THEN Commit(t) ELSE ErrOut(t, TRUE) : v \in ValidVerdicts(t)}

\* configureStreams that tests for an empty list only after it has marked
\* the current streams unused
configureStreams_LateCheck(h, old, id, cfg) ==
  IF cfg.isNull
  THEN {TxEnd(TxBegin(h, old, 0), "-EINVAL", FALSE, FALSE)}
  ELSE IF Len(cfg.streams) = 0
  THEN {TxEnd(ResetReuse(TxBegin(h, old, 0)), "-EINVAL", FALSE, FALSE)}
  ELSE UNION {AfterFill(t) :
         t \in FillFrom(ResetReuse(TxBegin(h, old, Len(cfg.streams))),
                        id, cfg.streams, 1)}

\* Camera::configureStreams(stream_config) on device id, from heap h and
\* committed array old: the set of its outcomes
configureStreams(h, old, id, cfg) ==
  IF cfg.isNull \/ Len(cfg.streams) = 0
  THEN {TxEnd(TxBegin(h, old, 0), "-EINVAL", FALSE, FALSE)}
  ELSE UNION {AfterFill(t) :
         t \in FillFrom(ResetReuse(TxBegin(h, old, Len(cfg.streams))),
                        id, cfg.streams, 1)}

\* ---------------------------------------------------------------- history
\* the last call that returned: the operation, its device, its argument, its
\* status and the handles it has written into the descriptors (priv); for a
\* configureStreams call also the committed array it found (old), the
\* streams it created, marked reused, deleted and deleted twice, and the
\* max_buffers of the descriptors when it returned (maxb)
NoCall ==
  [op |-> "none", dev |-> 0, cfg |-> NullConfig, ret |-> "none", priv |-> << >>,
   old |-> << >>, created |-> {}, reused |-> {}, destroyed |-> {},
   twice |-> {}, maxb |-> << >>]

Called(op, id, cfg, ret, priv) ==
  [NoCall EXCEPT !.op = op, !.dev = id, !.cfg = cfg, !.ret = ret, !.priv = priv]

\* line 150: astream->priv after the call, for each descriptor of the list
PrivAfter(cfg, r) ==
  [i \in 1 .. Len(cfg.streams) |->
     IF r.cand[i] \in Addr THEN r.cand[i] ELSE cfg.streams[i].priv]

\* line 258 (Stream::setMaxBuffers): max_buffers of each descriptor after the
\* call; setupStreams gives 1 to the descriptor of every stream it visits
MaxBuffersAfter(cfg, r) ==
  [i \in 1 .. Len(cfg.streams) |->
     IF r.cand[i] \in r.setup THEN 1 ELSE cfg.streams[i].max_buffers]

\* the record of a configureStreams call with outcome r
ConfigureCalled(id, cfg, r) ==
  [Called("configureStreams", id, cfg, r.ret, PrivAfter(cfg, r))
     EXCEPT !.old = r.old, !.created = r.created, !.reused = r.reused,
            !.destroyed = r.destroyed, !.twice = r.twice,
            !.maxb = MaxBuffersAfter(cfg, r)]

\* -------------------------------------------------------------- threads
NoThread == 0

\* the locals of a thread that is in no call
NoFrame ==
  [op |-> "none", dev |-> 0, cfg |-> NullConfig, ret |-> "none",
   newStreams |-> << >>, i |-> 0, failed |-> FALSE,
   created |-> {}, reused |-> {}, destroyed |-> {}, twice |-> {},
   heap0 |-> << >>, old0 |-> << >>]

\* ------------------------------------------------------------------ Init
Init ==
  /\ mBusy = [c \in Cameras |-> FALSE]
  /\ mStreams = [c \in Cameras |-> << >>]
  /\ heap = [a \in Addr |-> NoStream]
  /\ issued = {}
  /\ ub = "none"
  /\ last = NoCall
  /\ sessions = [c \in Cameras |-> 0]
  /\ mMutex = [c \in Cameras |-> NoThread]
  /\ pc = [t \in Threads |-> "idle"]
  /\ frame = [t \in Threads |-> NoFrame]
  /\ calls = [t \in Threads |-> 0]

\* ---------------------------------------------------------------- actions
\* The framework issues a call when it has taken the result of the previous
\* one (last = NoCall), except for ConfigureAgain.

\* open without the test of mBusy
Open_NoBusyTest(id) ==
  /\ ub = "none" /\ last = NoCall
  /\ mBusy' = [mBusy EXCEPT ![id] = TRUE]
  /\ sessions' = [sessions EXCEPT ![id] = IF @ < 2 THEN @ + 1 ELSE @]
  /\ last' = Called("open", id, NullConfig, "0", << >>)
  /\ UNCHANGED <<mStreams, heap, issued, ub, threadVars>>

\* Camera::open
Open(id) ==
  /\ ub = "none" /\ last = NoCall
  /\ IF mBusy[id]
     THEN /\ last' = Called("open", id, NullConfig, "-EBUSY", << >>)
          /\ UNCHANGED <<mBusy, sessions>>
     ELSE /\ mBusy' = [mBusy EXCEPT ![id] = TRUE]
          /\ sessions' = [sessions EXCEPT ![id] = @ + 1]
          /\ last' = Called("open", id, NullConfig, "0", << >>)
  /\ UNCHANGED <<mStreams, heap, issued, ub, threadVars>>

\* Camera::close
Close(id) ==
  /\ ub = "none" /\ last = NoCall
  /\ IF ~mBusy[id]
     THEN /\ last' = Called("close", id, NullConfig, "-EINVAL", << >>)
          /\ UNCHANGED <<mBusy, sessions>>
     ELSE /\ mBusy' = [mBusy EXCEPT ![id] = FALSE]
          /\ sessions' = [sessions EXCEPT ![id] = @ - 1]
          /\ last' = Called("close", id, NullConfig, "0", << >>)
  /\ UNCHANGED <<mStreams, heap, issued, ub, threadVars>>

\* Camera::configureStreams(cfg) on device id, the whole call
Configure(id, cfg) ==
  \E r \in configureStreams(heap, mStreams[id], id, cfg) :
    /\ UNCHANGED <<sessions, threadVars>>
    /\ IF r.ub = "crashed"
      THEN /\ ub' = "crashed"
           /\ UNCHANGED <<mBusy, mStreams, heap, issued, last>>
      ELSE /\ heap' = r.heap
           /\ mStreams' = [mStreams EXCEPT ![id] = r.streams]
           /\ issued' = IF r.ret = "0" THEN issued \cup Range(r.streams)
                                        ELSE issued
           /\ ub' = r.ub
           /\ last' = ConfigureCalled(id, cfg, r)
           /\ UNCHANGED mBusy

\* configureStreams with any configuration the caller can build
ConfigureStreams(id) ==
  /\ ub = "none" /\ last = NoCall
  /\ \E cfg \in Configs(issued) : Configure(id, cfg)

\* the descriptors as a successful call has left them: each carries its
\* handle and the max_buffers of its stream
Returned(c) ==
  [isNull |-> FALSE,
   streams |-> [i \in 1 .. Len(c.cfg.streams) |->
      [stream_type |-> c.cfg.streams[i].stream_type,
       max_buffers |-> heap[c.priv[i]].mMaxBuffers,
       priv |-> c.priv[i]]]]

\* configureStreams once more, with the descriptors of the successful call
\* that has just returned
ConfigureAgain(id) ==
  /\ ub = "none"
  /\ last.op = "configureStreams" /\ last.dev = id /\ last.ret = "0"
  /\ Configure(id, Returned(last))

\* the framework takes the result of the last call
FwCollect ==
  /\ ub = "none" /\ last # NoCall
  /\ last' = NoCall
  /\ UNCHANGED <<mBusy, mStreams, heap, issued, ub, sessions, threadVars>>

Next ==
  \/ \E id \in {0} : Open(id)
  \/ \E id \in {0} : Close(id)
  \/ \E id \in {0} : ConfigureStreams(id)
  \/ \E id \in {0} : ConfigureAgain(id)
  \/ FwCollect

Spec == Init /\ [][Next]_vars

\* ------------------------------------------------------- several devices
\* The calls on every device, one at a time.  The caller passes new output
\* descriptors and descriptors that an earlier call on any device returned.
ConfigureDevice(id) ==
  /\ ub = "none" /\ last = NoCall
  /\ \E cfg \in ThreadConfigs(issued) : Configure(id, cfg)

NextDevices ==
  \/ \E id \in Cameras : Open(id)
  \/ \E id \in Cameras : Close(id)
  \/ \E id \in Cameras : ConfigureDevice(id)
  \/ FwCollect

SpecDevices == Init /\ [][NextDevices]_vars

\* ------------------------------------------------- the calls, by threads
\* The same calls, step by step, made by threads: each thread makes up to
\* MaxCalls calls on device 0.  A step between pthread_mutex_lock and
\* pthread_mutex_unlock reads and writes the device as it is at that step.

\* a lock that excludes nobody
CanLock_Always(t, id) == TRUE

\* pthread_mutex_lock(&mMutex) of device id returns for thread t
CanLock(t, id) == mMutex[id] = NoThread

\* the transaction of thread t on the device as it is now
Tx(t) ==
  [heap |-> heap, old |-> mStreams[frame[t].dev],
   newStreams |-> frame[t].newStreams, failed |-> frame[t].failed, ub |-> "none",
   created |-> frame[t].created, reused |-> frame[t].reused,
   destroyed |-> frame[t].destroyed, twice |-> frame[t].twice,
   setup |-> {}]

\* thread t takes the transaction u as its state and goes to label
Put(t, u, label, ret) ==
  IF u.ub = "crashed"
  THEN /\ ub' = "crashed"
       /\ UNCHANGED <<heap, frame, pc>>
  ELSE /\ heap' = u.heap
       /\ ub' = IF u.ub = "none" THEN ub ELSE u.ub
       /\ frame' = [frame EXCEPT ![t].newStreams = u.newStreams,
                                  ![t].failed = u.failed,
                                  ![t].created = u.created,
                                  ![t].reused = u.reused,
                                  ![t].destroyed = u.destroyed,
                                  ![t].twice = u.twice,
                                  ![t].ret = ret]
       /\ pc' = [pc EXCEPT ![t] = label]

\* thread t enters Camera::open or Camera::close (lines 68-69, 88-89)
T_CallLifecycle(t) ==
  /\ ub = "none" /\ pc[t] = "idle" /\ calls[t] < MaxCalls
  /\ \E op \in {"open", "close"} :
       frame' = [frame EXCEPT ![t] = [NoFrame EXCEPT !.op = op]]
  /\ pc' = [pc EXCEPT ![t] = "lock"]
  /\ calls' = [calls EXCEPT ![t] = @ + 1]
  /\ UNCHANGED <<mBusy, mStreams, heap, issued, ub, last, sessions, mMutex>>

\* the streams that the call of thread u has still to create (line 144)
Pending(u) ==
  LET streams == frame[u].cfg.streams
      from    == CASE pc[u] \in {"lock", "reset"} -> 1
                   [] pc[u] = "fill"               -> frame[u].i
                   [] pc[u] = "fill_next"          -> frame[u].i + 1
                   [] OTHER                        -> Len(streams) + 1
  IN  Cardinality({j \in from .. Len(streams) : streams[j].max_buffers = 0})

\* memory is not exhausted: every new Stream of the calls in progress and
\* of a call with the configuration cfg finds an address
HeapHasRoom(t, cfg) ==
  LET fresh == Cardinality({j \in 1 .. Len(cfg.streams) :
                              cfg.streams[j].max_buffers = 0})
      others == {u \in Threads \ {t} : frame[u].op = "configureStreams"}
      need[S \in SUBSET others] ==
        IF S = {} THEN 0
        ELSE LET u == CHOOSE x \in S : TRUE IN Pending(u) + need[S \ {u}]
  IN  need[others] + fresh <= Cardinality(FreeAddr(heap))

\* thread t enters Camera::configureStreams (lines 111-131): the two tests
\* of the argument, then the allocation of newStreams
T_CallConfigure(t) ==
  /\ ub = "none" /\ pc[t] = "idle" /\ calls[t] < MaxCalls
  /\ \E cfg \in ThreadConfigs(issued) :
       /\ HeapHasRoom(t, cfg)
       /\ IF cfg.isNull \/ Len(cfg.streams) = 0
          THEN /\ frame' = [frame EXCEPT ![t] =
                    [NoFrame EXCEPT !.op = "configureStreams", !.ret = "-EINVAL"]]
               /\ pc' = pc
          ELSE /\ frame' = [frame EXCEPT ![t] =
                    [NoFrame EXCEPT !.op = "configureStreams", !.cfg = cfg,
                                    !.newStreams = [i \in 1 .. Len(cfg.streams) |-> UNINIT]]]
               /\ pc' = [pc EXCEPT ![t] = "lock"]
  /\ calls' = [calls EXCEPT ![t] = @ + 1]
  /\ UNCHANGED <<mBusy, mStreams, heap, issued, ub, last, sessions, mMutex>>

\* pthread_mutex_lock (lines 70, 90, 133)
T_Lock(t) ==
  /\ ub # "crashed" /\ pc[t] = "lock"
  /\ CanLock(t, frame[t].dev)
  /\ mMutex' = [mMutex EXCEPT ![frame[t].dev] = t]
  /\ pc' = [pc EXCEPT ![t] = CASE frame[t].op = "open"  -> "open_test"
                              [] frame[t].op = "close" -> "close_test"
                              [] OTHER                 -> "reset"]
  /\ frame' = [frame EXCEPT ![t].heap0 = heap, ![t].old0 = mStreams[frame[t].dev]]
  /\ UNCHANGED <<mBusy, mStreams, heap, issued, ub, last, sessions, calls>>

\* line 71: if (mBusy)
T_OpenTest(t) ==
  /\ ub # "crashed" /\ pc[t] = "open_test"
  /\ IF mBusy[frame[t].dev]
     THEN /\ frame' = [frame EXCEPT ![t].ret = "-EBUSY"]
          /\ pc' = [pc EXCEPT ![t] = "unlock"]
     ELSE /\ pc' = [pc EXCEPT ![t] = "open_set"]
          /\ UNCHANGED frame
  /\ UNCHANGED <<mBusy, mStreams, heap, issued, ub, last, sessions, mMutex, calls>>

\* lines 78-80: mBusy = true
T_OpenSet(t) ==
  /\ ub # "crashed" /\ pc[t] = "open_set"
  /\ mBusy' = [mBusy EXCEPT ![frame[t].dev] = TRUE]
  /\ sessions' = [sessions EXCEPT ![frame[t].dev] = @ + 1]
  /\ frame' = [frame EXCEPT ![t].ret = "0"]
  /\ pc' = [pc EXCEPT ![t] = "unlock"]
  /\ UNCHANGED <<mStreams, heap, issued, ub, last, mMutex, calls>>

\* line 91: if (!mBusy)
T_CloseTest(t) ==
  /\ ub # "crashed" /\ pc[t] = "close_test"
  /\ IF ~mBusy[frame[t].dev]
     THEN /\ frame' = [frame EXCEPT ![t].ret = "-EINVAL"]
          /\ pc' = [pc EXCEPT ![t] = "unlock"]
     ELSE /\ pc' = [pc EXCEPT ![t] = "close_clear"]
          /\ UNCHANGED frame
  /\ UNCHANGED <<mBusy, mStreams, heap, issued, ub, last, sessions, mMutex, calls>>

\* line 98: mBusy = false
T_CloseClear(t) ==
  /\ ub # "crashed" /\ pc[t] = "close_clear"
  /\ mBusy' = [mBusy EXCEPT ![frame[t].dev] = FALSE]
  /\ sessions' = [sessions EXCEPT ![frame[t].dev] = @ - 1]
  /\ frame' = [frame EXCEPT ![t].ret = "0"]
  /\ pc' = [pc EXCEPT ![t] = "unlock"]
  /\ UNCHANGED <<mStreams, heap, issued, ub, last, mMutex, calls>>

\* lines 135-137
T_Reset(t) ==
  /\ ub # "crashed" /\ pc[t] = "reset"
  /\ heap' = ResetReuse(Tx(t)).heap
  /\ frame' = [frame EXCEPT ![t].i = 1]
  /\ pc' = [pc EXCEPT ![t] = "fill"]
  /\ UNCHANGED <<mBusy, mStreams, issued, ub, last, sessions, mMutex, calls>>

\* lines 139-151: one iteration of the fill loop
T_Fill(t) ==
  /\ ub # "crashed" /\ pc[t] = "fill"
  /\ LET f == frame[t] IN
     \E u \in FillOne(Tx(t), f.dev, f.cfg.streams[f.i], f.i) :
       Put(t, u,
           IF u.failed THEN "err_out"
           ELSE IF f.i = Len(f.cfg.streams) THEN "validate" ELSE "fill_next",
           f.ret)
  /\ UNCHANGED <<mBusy, mStreams, issued, last, sessions, mMutex, calls>>

\* line 139: i++
T_FillNext(t) ==
  /\ ub # "crashed" /\ pc[t] = "fill_next"
  /\ frame' = [frame EXCEPT ![t].i = @ + 1]
  /\ pc' = [pc EXCEPT ![t] = "fill"]
  /\ UNCHANGED <<mBusy, mStreams, heap, issued, ub, last, sessions, mMutex, calls>>

\* line 154
T_Validate(t) ==
  /\ ub # "crashed" /\ pc[t] = "validate"
  /\ \E v \in ValidVerdicts(Tx(t)) :
       pc' = [pc EXCEPT ![t] = IF v THEN "setup" ELSE "err_out"]
  /\ UNCHANGED <<mBusy, mStreams, heap, issued, ub, last, sessions, mMutex, frame, calls>>

\* line 160
T_Setup(t) ==
  /\ ub # "crashed" /\ pc[t] = "setup"
  /\ Put(t, setupStreams(Tx(t), frame[t].newStreams, 1), "commit", frame[t].ret)
  /\ UNCHANGED <<mBusy, mStreams, issued, last, sessions, mMutex, calls>>

\* lines 163-165
T_Commit(t) ==
  /\ ub # "crashed" /\ pc[t] = "commit"
  /\ \E u \in destroyStreams(Tx(t), mStreams[frame[t].dev], 1) :
       /\ Put(t, u, "unlock", "0")
       /\ IF u.ub = "crashed"
          THEN UNCHANGED <<mStreams, issued>>
          ELSE /\ mStreams' = [mStreams EXCEPT ![frame[t].dev] = frame[t].newStreams]
               /\ issued' = issued \cup Range(frame[t].newStreams)
  /\ UNCHANGED <<mBusy, last, sessions, mMutex, calls>>

\* lines 170-172
T_ErrOut(t) ==
  /\ ub # "crashed" /\ pc[t] = "err_out"
  /\ \E u \in destroyStreams(Tx(t), frame[t].newStreams, 1) :
       Put(t, u, "unlock", "-EINVAL")
  /\ UNCHANGED <<mBusy, mStreams, issued, last, sessions, mMutex, calls>>

\* a return that keeps the lock
T_Unlock_KeepLock(t) ==
  /\ ub # "crashed" /\ pc[t] = "unlock"
  /\ pc' = [pc EXCEPT ![t] = "idle"]
  /\ frame' = [frame EXCEPT ![t] =
       [NoFrame EXCEPT !.op = frame[t].op, !.ret = frame[t].ret]]
  /\ UNCHANGED <<mBusy, mStreams, heap, issued, ub, last, sessions, calls, mMutex>>

\* pthread_mutex_unlock and return (lines 72-74, 82-83, 92-94, 100-101,
\* 167-168, 173-174)
T_Unlock(t) ==
  /\ ub # "crashed" /\ pc[t] = "unlock"
  /\ mMutex' = [mMutex EXCEPT ![frame[t].dev] = NoThread]
  /\ pc' = [pc EXCEPT ![t] = "idle"]
  /\ frame' = [frame EXCEPT ![t] =
       [NoFrame EXCEPT !.op = frame[t].op, !.ret = frame[t].ret]]
  /\ UNCHANGED <<mBusy, mStreams, heap, issued, ub, last, sessions, calls>>

NextThreads ==
  \E t \in Threads :
    \/ T_CallLifecycle(t)
    \/ T_CallConfigure(t)
    \/ T_Lock(t)
    \/ T_OpenTest(t)
    \/ T_OpenSet(t)
    \/ T_CloseTest(t)
    \/ T_CloseClear(t)
    \/ T_Reset(t)
    \/ T_Fill(t)
    \/ T_FillNext(t)
    \/ T_Validate(t)
    \/ T_Setup(t)
    \/ T_Commit(t)
    \/ T_ErrOut(t)
    \/ T_Unlock(t)

SpecThreads == Init /\ [][NextThreads]_vars

\* a step of thread t inside a call it has entered
T_Step(t) ==
  \/ T_Lock(t)
  \/ T_OpenTest(t)
  \/ T_OpenSet(t)
  \/ T_CloseTest(t)
  \/ T_CloseClear(t)
  \/ T_Reset(t)
  \/ T_Fill(t)
  \/ T_FillNext(t)
  \/ T_Validate(t)
  \/ T_Setup(t)
  \/ T_Commit(t)
  \/ T_ErrOut(t)
  \/ T_Unlock(t)

\* fair scheduling: a thread that can take a step of its call takes one; a
\* thread is not obliged to make a call
SpecThreadsFair ==
  SpecThreads /\ \A t \in Threads : WF_vars(T_Step(t))

\* ------------------------------------------- the validator, on its own
\* Camera::isValidStreamSet applied to any array of up to MaxLen pointers to
\* streams of any types: thread 1 holds the array and takes the verdict.
InitValidator ==
  /\ mBusy = [c \in Cameras |-> FALSE]
  /\ mStreams = [c \in Cameras |-> << >>]
  /\ heap \in [Addr -> {Stream(0, FreshDesc(ty)) : ty \in StreamTypes}]
  /\ issued = {}
  /\ ub = "none"
  /\ last = NoCall
  /\ sessions = [c \in Cameras |-> 0]
  /\ mMutex = [c \in Cameras |-> NoThread]
  /\ pc = [t \in Threads |-> IF t = 1 THEN "validate" ELSE "idle"]
  /\ \E s \in SeqsUpTo(Addr, MaxLen) :
       frame = [t \in Threads |->
                  IF t = 1
                  THEN [NoFrame EXCEPT !.op = "isValidStreamSet", !.newStreams = s]
                  ELSE NoFrame]
  /\ calls = [t \in Threads |-> 0]

\* lines 202-233: the call returns its verdict; it writes nothing
CallIsValidStreamSet(t) ==
  /\ pc[t] = "validate" /\ frame[t].op = "isValidStreamSet"
  /\ LET streams == frame[t].newStreams
         objs    == [i \in 1 .. Len(streams) |-> heap[streams[i]]]
     IN  frame' = [frame EXCEPT ![t].ret =
                     IF isValidStreamSet(objs) THEN "true" ELSE "false"]
  /\ pc' = [pc EXCEPT ![t] = "idle"]
  /\ UNCHANGED <<mBusy, mStreams, heap, issued, ub, last, sessions, mMutex, calls>>

NextValidator == \E t \in {1} : CallIsValidStreamSet(t)

SpecValidator == InitValidator /\ [][NextValidator]_vars

\* ------------------------------------------------------- claim vocabulary
\* this step is a configureStreams call on device id that returns
ConfigReturns(id) ==
  /\ ub' # "crashed"
  /\ last'.op = "configureStreams"
  /\ last'.dev = id

\* the argument of the call that returns in this step
Arg == last'.cfg.streams

NonEmpty(c) == ~c.isNull /\ Len(c.streams) > 0

SignalsReuse(d) == d.max_buffers > 0

\* the descriptor d names a live stream of device id in the heap h, of d's type
Compatible(h, id, d) ==
  /\ h[d.priv].alive
  /\ h[d.priv].mId = id
  /\ h[d.priv].mType = d.stream_type

AllReuseCompatible(h, id, streams) ==
  \A i \in 1 .. Len(streams) :
    SignalsReuse(streams[i]) => Compatible(h, id, streams[i])

\* the numbers of input-capable and output-capable streams of the candidate
\* set of a list whose reuse descriptors are compatible: a candidate stream
\* has the type of its descriptor
NumInputs(streams) ==
  Cardinality({i \in 1 .. Len(streams) :
                 streams[i].stream_type \in {"INPUT", "BIDIRECTIONAL"}})
NumOutputs(streams) ==
  Cardinality({i \in 1 .. Len(streams) :
                 streams[i].stream_type \in {"OUTPUT", "BIDIRECTIONAL"}})

Live(h) == {a \in Addr : h[a].alive}

\* ------------------------------------------------------------------ C1
\* C1: a call whose candidate set (every reuse descriptor compatible) has no
\* output-capable stream or two or more input-capable streams returns
\* -EINVAL, and the committed array of the device is the same sequence of
\* stream identities as before the call.
C1_Rollback ==
  [][\A id \in Cameras :
       ( /\ ConfigReturns(id)
         /\ NonEmpty(last'.cfg)
         /\ AllReuseCompatible(heap, id, Arg)
         /\ (NumOutputs(Arg) = 0 \/ NumInputs(Arg) >= 2) )
       => /\ last'.ret = "-EINVAL"
          /\ mStreams'[id] = mStreams[id]]_vars

\* a call on a configured device was rejected for two input-capable streams,
\* one of them reused and one new
C1_Witness ==
  /\ last.op = "configureStreams" /\ last.ret = "-EINVAL"
  /\ Len(last.cfg.streams) = 2
  /\ NumInputs(last.cfg.streams) = 2 /\ NumOutputs(last.cfg.streams) >= 1
  /\ \E i, j \in 1 .. 2 :
        /\ SignalsReuse(last.cfg.streams[i])
        /\ Compatible(heap, last.dev, last.cfg.streams[i])
        /\ last.cfg.streams[i].priv \in Range(mStreams[last.dev])
        /\ ~SignalsReuse(last.cfg.streams[j])

\* ------------------------------------------------------------------ C2
\* C2: a call with a non-empty list whose reuse descriptors are all
\* compatible and whose candidate set has at least one output-capable and at
\* most one input-capable stream returns 0, and afterwards position i of the
\* committed array holds the stream descriptor i reused, or, for a fresh
\* descriptor, a stream created in this call (one per fresh descriptor).
C2_Commit ==
  [][\A id \in Cameras :
       ( /\ ConfigReturns(id)
         /\ NonEmpty(last'.cfg)
         /\ AllReuseCompatible(heap, id, Arg)
         /\ NumOutputs(Arg) >= 1 /\ NumInputs(Arg) <= 1 )
       => /\ last'.ret = "0"
          /\ Len(mStreams'[id]) = Len(Arg)
          /\ \A i \in 1 .. Len(Arg) :
               IF SignalsReuse(Arg[i])
               THEN mStreams'[id][i] = Arg[i].priv
               ELSE /\ mStreams'[id][i] \in Addr
                    /\ ~heap[mStreams'[id][i]].alive
                    /\ heap'[mStreams'[id][i]].alive
                    /\ heap'[mStreams'[id][i]].mId = id
                    /\ heap'[mStreams'[id][i]].mType = Arg[i].stream_type
                    /\ \A j \in 1 .. Len(Arg) :
                         j # i => mStreams'[id][j] # mStreams'[id][i]]_vars

\* a successful call has reused one stream and created another
C2_Witness ==
  /\ last.op = "configureStreams" /\ last.ret = "0" /\ ub = "none"
  /\ Len(last.cfg.streams) = 2
  /\ SignalsReuse(last.cfg.streams[1])
  /\ ~SignalsReuse(last.cfg.streams[2])
  /\ mStreams[last.dev] = <<last.cfg.streams[1].priv, last.priv[2]>>
  /\ last.priv[2] # last.cfg.streams[1].priv

\* ------------------------------------------------------------------ C3
\* C3: a call whose list holds a reuse descriptor that names a stream of
\* another type returns -EINVAL, leaves the committed array as it was and
\* destroys no stream of the committed set, wherever the descriptor stands
\* in the list.
C3_MismatchNoMutation ==
  [][\A id \in Cameras :
       ( /\ ConfigReturns(id)
         /\ \E i \in 1 .. Len(Arg) :
              /\ SignalsReuse(Arg[i])
              /\ heap[Arg[i].priv].alive
              /\ heap[Arg[i].priv].mType # Arg[i].stream_type )
       => /\ last'.ret = "-EINVAL"
          /\ mStreams'[id] = mStreams[id]
          /\ \A a \in Range(mStreams[id]) : heap[a].alive => heap'[a].alive]_vars

\* ------------------------------------------------------------------ C4
\* C4: after a call the committed set is the whole candidate set (status 0)
\* or the set committed before the call, its streams untouched (status
\* -EINVAL); and on -EINVAL every stream created in the call is destroyed
\* and no stream carried over as reused is destroyed.
C4_AllOrNothing ==
  [][\A id \in Cameras :
       ConfigReturns(id)
       => \/ /\ last'.ret = "0"
             /\ mStreams'[id] = last'.priv
          \/ /\ last'.ret = "-EINVAL"
             /\ mStreams'[id] = mStreams[id]
             /\ \A a \in Range(mStreams[id]) : heap[a].alive => heap'[a].alive
             /\ \A a \in Addr : ~heap[a].alive => ~heap'[a].alive
             /\ \A i \in 1 .. Len(Arg) :
                  (SignalsReuse(Arg[i]) /\ Compatible(heap, id, Arg[i]))
                    => heap'[Arg[i].priv].alive]_vars

\* ------------------------------------------------------------------ C5
\* C5: when a successful call is followed by a call with the same list, each
\* descriptor carrying the handle and the max_buffers the first call left,
\* the second call returns 0, creates no stream, destroys no stream and
\* leaves the same stream identities in the same order.
C5_Idempotent ==
  [][\A id \in Cameras :
       ( /\ last.op = "configureStreams" /\ last.dev = id /\ last.ret = "0"
         /\ ConfigReturns(id)
         /\ last'.cfg = Returned(last) )
       => /\ last'.ret = "0"
          /\ mStreams'[id] = mStreams[id]
          /\ Live(heap') = Live(heap)
          /\ \A a \in Live(heap) : heap'[a].mId = heap[a].mId
                                    /\ heap'[a].mType = heap[a].mType]_vars

\* the second of two calls with the same list of a reused and a new stream
\* has returned
C5_Witness ==
  /\ last.op = "configureStreams" /\ last.ret = "0" /\ ub = "none"
  /\ Len(last.cfg.streams) = 2
  /\ \A i \in 1 .. 2 : SignalsReuse(last.cfg.streams[i])
  /\ last.cfg.streams[1].priv # last.cfg.streams[2].priv
  /\ mStreams[last.dev] = <<last.cfg.streams[1].priv, last.cfg.streams[2].priv>>
  /\ \A a \in Range(mStreams[last.dev]) : heap[a].alive /\ heap[a].mReuse

\* ------------------------------------------------------------------ C6
\* C6: in every reachable state the committed set of a device is empty, or
\* holds at most one input-capable and at least one output-capable stream.
C6_CommittedValid ==
  \A id \in Cameras :
    \/ mStreams[id] = << >>
    \/ /\ Cardinality({i \in 1 .. Len(mStreams[id]) :
                          /\ heap[mStreams[id][i]].alive
                          /\ isInputType(heap[mStreams[id][i]])}) <= 1
       /\ Cardinality({i \in 1 .. Len(mStreams[id]) :
                          /\ heap[mStreams[id][i]].alive
                          /\ isOutputType(heap[mStreams[id][i]])}) >= 1

\* ------------------------------------------------------------------ C7
\* C7: a call with a null configuration or with no streams returns -EINVAL
\* and leaves the committed set, every stream (its reuse flag included) and
\* the busy flag as they were; no stream is created or destroyed.
C7_NullOrEmpty ==
  [][\A id \in Cameras :
       (ConfigReturns(id) /\ ~NonEmpty(last'.cfg))
       => /\ last'.ret = "-EINVAL"
          /\ mStreams' = mStreams
          /\ heap' = heap
          /\ mBusy' = mBusy]_vars

\* an empty list was rejected on a device whose committed stream is marked
\* reused
C7_Witness ==
  /\ last.op = "configureStreams" /\ last.ret = "-EINVAL"
  /\ ~last.cfg.isNull /\ last.cfg.streams = << >>
  /\ mStreams[last.dev] # << >>
  /\ \E a \in Range(mStreams[last.dev]) : heap[a].alive /\ heap[a].mReuse

\* ------------------------------------------------------------------ C8
\* C8: open returns 0 and sets busy iff the device was not busy, else it
\* returns -EBUSY and changes nothing; close returns 0 and clears busy iff
\* the device was busy, else it returns -EINVAL and changes nothing.
C8_Lifecycle ==
  [][\A id \in Cameras :
       /\ (last'.op = "open" /\ last'.dev = id /\ last = NoCall)
            => /\ UNCHANGED <<mStreams, heap>>
               /\ IF mBusy[id]
                  THEN last'.ret = "-EBUSY" /\ mBusy' = mBusy
                  ELSE last'.ret = "0" /\ mBusy' = [mBusy EXCEPT ![id] = TRUE]
       /\ (last'.op = "close" /\ last'.dev = id /\ last = NoCall)
            => /\ UNCHANGED <<mStreams, heap>>
               /\ IF mBusy[id]
                  THEN last'.ret = "0" /\ mBusy' = [mBusy EXCEPT ![id] = FALSE]
                  ELSE last'.ret = "-EINVAL" /\ mBusy' = mBusy]_vars

\* a second open of an open device was refused
C8_Witness ==
  /\ last.op = "open" /\ last.ret = "-EBUSY" /\ mBusy[last.dev]

\* ------------------------------------------------------------------ C9
\* C9: under any interleaving of open and close by threads, a device has at
\* most one open session: the successful opens exceed the successful closes
\* by one exactly when the device is busy, and never by more; a thread whose
\* open is refused, or succeeds, leaves a device with one session.
C9_SingleSession ==
  \A id \in Cameras :
    /\ sessions[id] \in {0, 1}
    /\ mBusy[id] <=> sessions[id] = 1
    /\ \A t \in Threads :
         (pc[t] = "unlock" /\ frame[t].op = "open" /\ frame[t].dev = id)
           => sessions[id] = 1

\* every thread has called open and has returned: one got 0, the others
\* -EBUSY
C9_Witness ==
  /\ \A t \in Threads :
       /\ pc[t] = "idle" /\ frame[t].op = "open"
       /\ frame[t].ret \in {"0", "-EBUSY"}
  /\ Cardinality({t \in Threads : frame[t].ret = "0"}) = 1
  /\ Cardinality({t \in Threads : frame[t].ret = "-EBUSY"}) = NumThreads - 1

\* ------------------------------------------------------------------ C10
\* C10: a thread that is at a step of configureStreams (or open, close)
\* between lock and unlock holds the mutex of its device, so no two threads
\* are there at once; and when a configureStreams call unlocks, the heap, the
\* committed array and the status are an outcome of the whole call run alone
\* from the state in which it took the lock.
InCritical(t) == pc[t] \notin {"idle", "lock"}

C10_Serialized ==
  /\ \A t \in Threads : InCritical(t) => mMutex[frame[t].dev] = t
  /\ \A t \in Threads :
       (pc[t] = "unlock" /\ frame[t].op = "configureStreams")
         => \E r \in configureStreams(frame[t].heap0, frame[t].old0,
                                       frame[t].dev, frame[t].cfg) :
              /\ r.heap = heap
              /\ r.streams = mStreams[frame[t].dev]
              /\ r.ret = frame[t].ret

\* a configuration that replaced an earlier one is about to unlock while
\* another thread waits for the lock with its own configuration
C10_Witness ==
  \E t1, t2 \in Threads :
    /\ t1 # t2
    /\ pc[t1] = "unlock" /\ frame[t1].op = "configureStreams"
    /\ frame[t1].ret = "0" /\ frame[t1].old0 # << >>
    /\ mStreams[frame[t1].dev] # frame[t1].old0
    /\ pc[t2] = "lock" /\ frame[t2].op = "configureStreams"

\* ------------------------------------------------------------------ C11
\* the stream at a is named by a reuse descriptor of the list
Named(streams, a) ==
  \E i \in 1 .. Len(streams) : SignalsReuse(streams[i]) /\ streams[i].priv = a

\* C11: when a configureStreams call returns 0, a stream of the committed
\* set it found has been destroyed exactly when no descriptor of the list
\* names it for reuse; a stream that is named is still the same live object
\* and is in the new committed set, and one that is not named is gone even
\* when its reuse flag was still set from an earlier call.
C11_DestroyIffNotReused ==
  [][\A id \in Cameras :
       (ConfigReturns(id) /\ last'.ret = "0")
       => \A a \in Range(mStreams[id]) :
            heap[a].alive =>
              /\ a \in last'.destroyed <=> ~Named(Arg, a)
              /\ Named(Arg, a) =>
                   /\ heap'[a].alive
                   /\ heap'[a].mId = heap[a].mId
                   /\ heap'[a].mType = heap[a].mType
                   /\ a \in Range(mStreams'[id])
              /\ ~Named(Arg, a) => ~heap'[a].alive]_vars

\* a successful call found two committed streams, reused one, destroyed the
\* other and created a new one
C11_Witness ==
  /\ last.op = "configureStreams" /\ last.ret = "0" /\ ub = "none"
  /\ Len(last.old) = 2 /\ last.old[1] # last.old[2]
  /\ last.created # {}
  /\ \E a, b \in Range(last.old) :
        /\ a \in last.reused /\ heap[a].alive /\ a \in Range(mStreams[last.dev])
        /\ b \in last.destroyed /\ b \notin last.reused

\* ------------------------------------------------------------------ C12
\* C12: every stream that a configureStreams call has marked reused was in
\* the committed set the call found, whatever handles previously returned
\* by configureStreams the caller passes back (the handle of a stream that
\* an intermediate configuration destroyed included).
C12_ReusedWereCommitted ==
  last.op = "configureStreams" => last.reused \subseteq Range(last.old)

ReuseNamesLive(h, streams) ==
  \A i \in 1 .. Len(streams) : SignalsReuse(streams[i]) => h[streams[i].priv].alive

C14_NoDoubleDestroy ==
  /\ last.op = "configureStreams" => last.twice = {}
  /\ \A id \in Cameras :
       \A i \in 1 .. Len(mStreams[id]) : heap[mStreams[id][i]].alive

\* ------------------------------------------------------------------ C15
\* the streams of device id that exist are the streams of its committed set
OwnedAreCommitted(h, committed, id) ==
  {a \in Addr : h[a].alive /\ h[a].mId = id} = Range(committed[id])

\* every reuse descriptor of the list names a stream of the committed set
ReuseNamesCommitted(committed, streams) ==
  \A i \in 1 .. Len(streams) :
    SignalsReuse(streams[i]) => streams[i].priv \in Range(committed)

\* C15: when the existing streams of a device are exactly its committed set
\* and a configureStreams call whose reuse descriptors name only committed
\* streams returns (0 or -EINVAL), the existing streams of the device are
\* again exactly its committed set: nothing leaks, nothing dangles.
C15_NoLeak ==
  [][\A id \in Cameras :
       ( /\ ConfigReturns(id)
         /\ OwnedAreCommitted(heap, mStreams, id)
         /\ ReuseNamesCommitted(mStreams[id], Arg) )
       => OwnedAreCommitted(heap', mStreams', id)]_vars

\* ------------------------------------------------------------------ C16
\* the numbers of positions of the array that hold an input-capable and an
\* output-capable stream
InputCapable(h, streams) ==
  {i \in 1 .. Len(streams) : h[streams[i]].mType \in {"INPUT", "BIDIRECTIONAL"}}
OutputCapable(h, streams) ==
  {i \in 1 .. Len(streams) : h[streams[i]].mType \in {"OUTPUT", "BIDIRECTIONAL"}}

\* C16: isValidStreamSet returns true exactly when the array is not empty,
\* holds at most one input-capable and at least one output-capable stream
\* (a bidirectional stream is both); the call changes neither the array nor
\* any stream.
C16_ValidatorIff ==
  [][\A t \in Threads :
       (pc[t] = "validate" /\ pc'[t] = "idle" /\ frame[t].op = "isValidStreamSet")
       => /\ frame'[t].ret \in {"true", "false"}
          /\ frame'[t].ret = "true" <=>
               /\ Len(frame[t].newStreams) > 0
               /\ Cardinality(InputCapable(heap, frame[t].newStreams)) <= 1
               /\ Cardinality(OutputCapable(heap, frame[t].newStreams)) >= 1
          /\ heap' = heap
          /\ frame'[t].newStreams = frame[t].newStreams]_vars

\* the validator has accepted an array of a bidirectional stream and an
\* output-only stream
C16_Witness ==
  \E t \in Threads :
    /\ pc[t] = "idle" /\ frame[t].op = "isValidStreamSet" /\ frame[t].ret = "true"
    /\ Len(frame[t].newStreams) = 2
    /\ heap[frame[t].newStreams[1]].mType = "BIDIRECTIONAL"
    /\ heap[frame[t].newStreams[2]].mType = "OUTPUT"

\* ------------------------------------------------------------------ C17
\* the usage mask of a stream of type ty
UsageOf(ty) ==
  CASE ty = "OUTPUT"        -> WriteFlags
    [] ty = "INPUT"         -> ReadFlags
    [] ty = "BIDIRECTIONAL" -> WriteFlags \cup ReadFlags

C18_EveryCallCompletes ==
  /\ [](\A t \in Threads :
          pc[t] = "idle" => \A id \in Cameras : mMutex[id] # t)
  /\ \A t \in Threads : (pc[t] # "idle") ~> (pc[t] = "idle")

\* C18 for calls that do not end the process: a thread that is in no call
\* holds no device lock, and under fair scheduling every call a thread has
\* entered returns unless undefined behaviour has killed the process.
C18_CompletesUnlessCrashed ==
  /\ [](\A t \in Threads :
          pc[t] = "idle" => \A id \in Cameras : mMutex[id] # t)
  /\ \A t \in Threads :
       (pc[t] # "idle") ~> (pc[t] = "idle" \/ ub = "crashed")

\* a failed configureStreams call is about to release the lock that
\* another thread is waiting for
C18_Witness ==
  \E t \in Threads :
    /\ pc[t] = "unlock" /\ frame[t].op = "configureStreams"
    /\ frame[t].ret = "-EINVAL" /\ mMutex[frame[t].dev] = t
    /\ \E u \in Threads \ {t} : pc[u] = "lock"

\* ------------------------------------------------------------------ C19
\* the list holds a reuse descriptor that names a stream of another device
NamesForeign(h, id, streams) ==
  \E i \in 1 .. Len(streams) :
    /\ SignalsReuse(streams[i])
    /\ h[streams[i].priv].alive
    /\ h[streams[i].priv].mId # id

\* C19: a configureStreams call on device A leaves the committed array, the
\* streams and the busy flag of every other device B as they were; and a
\* call on A whose list names for reuse a stream of another device returns
\* -EINVAL and leaves the committed array of A as it was too.
C19_DevicesIndependent ==
  [][\A A \in Cameras :
       ConfigReturns(A)
       => /\ \A B \in Cameras \ {A} :
               /\ mStreams'[B] = mStreams[B]
               /\ mBusy'[B] = mBusy[B]
               /\ \A a \in Addr :
                    (heap[a].alive /\ heap[a].mId = B) => heap'[a] = heap[a]
          /\ NamesForeign(heap, A, Arg)
               => /\ last'.ret = "-EINVAL"
                  /\ mStreams'[A] = mStreams[A]]_vars

\* C19 for calls that end without undefined behaviour: such a call on
\* device A leaves the committed array, the streams and the busy flag of
\* every other device as they were, and when its list names for reuse a
\* stream of another device it returns -EINVAL and leaves the committed
\* array of A as it was.
C19_IndependentUnlessUB ==
  [][\A A \in Cameras :
       (ConfigReturns(A) /\ ub' = "none")
       => /\ \A B \in Cameras \ {A} :
               /\ mStreams'[B] = mStreams[B]
               /\ mBusy'[B] = mBusy[B]
               /\ \A a \in Addr :
                    (heap[a].alive /\ heap[a].mId = B) => heap'[a] = heap[a]
          /\ NamesForeign(heap, A, Arg)
               => /\ last'.ret = "-EINVAL"
                  /\ mStreams'[A] = mStreams[A]]_vars

\* a call on one device that named a committed stream of another device
\* was rejected, and that stream is still there
C19_Witness ==
  /\ last.op = "configureStreams" /\ last.ret = "-EINVAL" /\ ub = "none"
  /\ \E B \in Cameras \ {last.dev} :
       \E i \in 1 .. Len(last.cfg.streams) :
         /\ SignalsReuse(last.cfg.streams[i])
         /\ last.cfg.streams[i].priv \in Range(mStreams[B])
         /\ heap[last.cfg.streams[i].priv].alive
         /\ heap[last.cfg.streams[i].priv].mId = B
         /\ heap[last.cfg.streams[i].priv].mType = last.cfg.streams[i].stream_type

TypeOK ==
  /\ mBusy \in [Cameras -> BOOLEAN]
  /\ ub \in {"none", "corrupt", "crashed"}
  /\ \A c \in Cameras : \A i \in 1 .. Len(mStreams[c]) : mStreams[c][i] \in Addr

====
